---------------------------- MODULE Spec2Model ----------------------------
(***************************************************************************)
(* Model of the request-signing and proxy-session core of                  *)
(* binance-core-client: ProxyManager (proxy_manager.py), Utils             *)
(* (utils.py), BinanceCoreClient (binance_core_client.py) and the private  *)
(* endpoint methods of SpotTrading, MarginTrading and FuturesTrading.      *)
(*                                                                         *)
(* Candidates are identified by their 0-based position in proxy_list, as   *)
(* in the source (proxy_index).  A requests.Session is a record            *)
(* [id, proxy]: id is the identity of the constructed object, proxy the    *)
(* position of the descriptor whose URL was put into session.proxies.      *)
(***************************************************************************)
EXTENDS Integers, Sequences, FiniteSets, TLC

(* ------------------------------ bounds -------------------------------- *)

\* Longest proxy_list handed to ProxyManager.__init__.
MaxProxies == 3

\* Number of requests.Session objects constructed before the model stops
\* starting new calls.
MaxSessions == 2

\* Longest proxy_list of a ProxyManager shared by two threads.
MaxConcProxies == 2

\* Longest mapping handed to Utils.generate_signature on its own.
MaxParams == 3

(* --------------------------- program values --------------------------- *)

\* Python's None for the session attribute and for returned sessions.
None == [id |-> 0, proxy |-> -1]

\* proxy_info['type'] values: one accepted by _test_proxy and one refused.
ProxyTypes == {"socks5", "ftp"}

\* The types _test_proxy opens a socket for (line 31).
SupportedTypes == {"socks5", "http", "https"}

VARIABLES
    \* ProxyManager attributes
    proxy_list,     \* sequence of proxy types, fixed at construction
    proxy_index,    \* self.proxy_index
    session,        \* self.session
    \* environment
    alive,          \* alive[i]: a connection through candidate i completes now
    created,        \* number of requests.Session objects constructed so far
    \* the callers (one per thread) and their position in the code
    threads,        \* the callers
    pc,             \* pc[t]: the statement thread t executes next
    op,             \* op[t]: the public operation t runs
    sweepRet,       \* where t's _get_session_with_working_proxy returns to
    cnt,            \* iterations t's sweep loop has completed
    proxy_info,     \* the local proxy_info of t (a position in proxy_list)
    rv,             \* value the sweep of t returned
    ret,            \* session get_working_session returns to t
    ok,             \* bool test_current_proxy returns to t
    \* what happened so far in the public call t runs
    probes,         \* number of _test_proxy calls
    firstProbe,     \* outcome of the first _test_proxy call
    startSession,   \* self.session when the call started
    startIndex,     \* self.proxy_index when the call started
    startCreated,   \* created when the call started
    changed,        \* some candidate's liveness changed since the call started
    probeLog,       \* the _test_proxy calls so far: <<candidate, outcome>>
    steady,         \* the candidates live since the call started
    \* what happened so far in the sweep t runs (or ran last in this call)
    sweepStart,     \* self.proxy_index when the sweep started
    sweepLog,       \* the _test_proxy calls of the sweep: <<candidate, outcome>>
    \* BinanceCoreClient and its endpoint modules
    client,         \* "none", "constructing" or "built"
    modSession,     \* the session handed to SpotTrading, MarginTrading, FuturesTrading
    request,        \* the HTTP request an endpoint method has in flight
    result,         \* what the endpoint method returns
    \* a caller of Utils.generate_signature
    params,         \* the mapping to sign: a sequence of <<key, value>> pairs
    api_secret,     \* the secret key
    sigState,       \* "ready" (before the call) or "signed" (after it)
    signature,      \* what generate_signature returned
    prevParams,     \* the mapping of the previous call
    prevSignature   \* what the previous call returned

poolVars == <<proxy_list, proxy_index, session>>
envVars == <<alive, created>>
threadVars == <<threads, pc, op, sweepRet, cnt, proxy_info, rv, ret, ok>>
callVars == <<probes, firstProbe, startSession, startIndex, startCreated, changed,
              probeLog, steady>>
sweepVars == <<sweepStart, sweepLog>>
clientVars == <<client, modSession, request, result>>

signVars == <<params, api_secret, sigState, signature, prevParams, prevSignature>>

vars == <<poolVars, envVars, threadVars, callVars, sweepVars, clientVars, signVars>>

N == Len(proxy_list)
Indices == 0 .. (N - 1)

(* ------------------------- ProxyManager helpers ----------------------- *)

\* _test_proxy: True iff the type is supported and the connection through
\* the candidate completes; every exception is turned into False.
TestProxy(i) == proxy_list[i + 1] \in SupportedTypes /\ alive[i]

\* What stops a probe of candidate i that does not succeed: the type is not
\* one of line 31's, or one of the calls of lines 32-49 raises.
ProbeExceptions == {"ProxyConnectionError", "GeneralProxyError", "timeout", "ValueError"}
ProbeFailures(i) ==
    IF proxy_list[i + 1] \in SupportedTypes THEN ProbeExceptions ELSE {"unsupported"}

\* except socket.timeout
CaughtTimeoutOnly(e) == e = "timeout"

\* Line 56: except Exception.
Caught(e) == TRUE

\* _test_proxy returns False after failure e (line 55 or line 58); otherwise
\* the exception leaves _test_proxy.
ReturnsFalse(e) == e = "unsupported" \/ Caught(e)

\* _rotate_proxy without the increment.
RotateProxyStuck(idx, n) == idx

\* _rotate_proxy stepping over one candidate.
RotateProxySkip(idx, n) == (idx + 2) % n

\* _rotate_proxy without the modulo.
RotateProxyNoWrap(idx, n) == idx + 1

\* _rotate_proxy stepping backwards.
RotateProxyBack(idx, n) == (idx + n - 1) % n

\* _rotate_proxy: the next value of proxy_index.
RotateProxy(idx, n) == (idx + 1) % n

\* _set_proxy_for_session: the new requests.Session routed through info.
SetProxyForSession(info, id) == [id |-> id, proxy |-> info]

\* range(len(self.proxy_list) - 1)
SweepLimitShort(n) == n - 1

\* range(len(self.proxy_list) + 1)
SweepLimitLong(n) == n + 1

\* range(len(self.proxy_list)): the sweep loop runs while cnt < len.
SweepLimit(n) == n

\* Python truthiness of self.session.
Truthy(s) == s # None

(* -------------------------------- Utils ------------------------------- *)

\* A text is a sequence of tokens: a word of characters quote_plus leaves
\* alone, or one of the characters it rewrites.

\* urllib.parse.quote_plus on one token.
QuoteChar(c) ==
    CASE c = " " -> "+"
      [] c = "&" -> "%26"
      [] c = "=" -> "%3D"
      [] c = "+" -> "%2B"
      [] OTHER -> c

\* urllib.parse.quote_plus on a text.
QuotePlus(text) == [i \in 1..Len(text) |-> QuoteChar(text[i])]

\* The keys a caller may put in a mapping, in alphabetical order.
AlphabeticalKeys == <<"signature", "symbol", "timestamp">>

RECURSIVE ItemsByKey(_, _)
ItemsByKey(p, ks) ==
    IF ks = <<>> THEN <<>>
    ELSE SelectSeq(p, LAMBDA item : item[1] = Head(ks)) \o ItemsByKey(p, Tail(ks))

\* The items of a dict sorted by key, as urlencode(sorted(params.items())).
SortedItems(p) == ItemsByKey(p, AlphabeticalKeys)

\* The order in which urlencode visits the items of a dict: insertion order.
ItemOrder(p) == p

\* urllib.parse.urlencode(params): key=value joined by &, in ItemOrder.
RECURSIVE JoinItems(_)
JoinItems(p) ==
    IF p = <<>> THEN <<>>
    ELSE LET item == p[Len(p)]
             text == QuotePlus(<<item[1]>>) \o <<"=">> \o QuotePlus(item[2])
         IN  IF Len(p) = 1 THEN text
             ELSE JoinItems(SubSeq(p, 1, Len(p) - 1)) \o <<"&">> \o text

UrlEncode(p) == JoinItems(ItemOrder(p))

\* hmac.new(key, msg, sha256).hexdigest(): the digest is a value that
\* determines, and is determined by, the key and the message.
Hmac(key, msg) == [alg |-> "hmac-sha256", key |-> key, msg |-> msg]

\* No digest (nothing returned).
NoSignature == [alg |-> "none", key |-> "", msg |-> <<>>]

\* Utils.generate_signature
GenerateSignature(p, secret) == Hmac(secret, UrlEncode(p))

\* Utils.generate_headers
GenerateHeaders(api_key) == <<<<"X-MBX-APIKEY", api_key>>>>

\* Whether dict d has key k.
HasKey(d, k) == \E i \in DOMAIN d : d[i][1] = k

\* d[k] = v on a Python dict: an existing key keeps its place.
DictSet(d, k, v) ==
    IF HasKey(d, k)
    THEN [i \in DOMAIN d |-> IF d[i][1] = k THEN <<k, v>> ELSE d[i]]
    ELSE Append(d, <<k, v>>)

\* d.update(e)
RECURSIVE DictUpdate(_, _)
DictUpdate(d, e) ==
    IF e = <<>> THEN d
    ELSE DictUpdate(DictSet(d, e[1][1], e[1][2]), Tail(e))

\* The keys of d in order.
KeysOf(d) == [i \in DOMAIN d |-> d[i][1]]

(* ------------------------------- Init --------------------------------- *)

\* No request in flight.
NoRequest == [module |-> "none", session |-> None, pool |-> None,
              signed |-> <<>>, params |-> <<>>, headers |-> <<>>]

\* ProxyManager.__init__
InitPool ==
    /\ proxy_list \in UNION {[1..n -> ProxyTypes] : n \in 0..MaxProxies}
    /\ proxy_index = 0
    /\ session = None
    /\ alive \in [Indices -> BOOLEAN]
    /\ \A i \in Indices : alive[i] => proxy_list[i + 1] \in SupportedTypes
    /\ created = 0

InitThreads(T) ==
    /\ threads = T
    /\ pc = [t \in T |-> "idle"]
    /\ op = [t \in T |-> "none"]
    /\ sweepRet = [t \in T |-> "none"]
    /\ cnt = [t \in T |-> 0]
    /\ proxy_info = [t \in T |-> 0]
    /\ rv = [t \in T |-> None]
    /\ ret = [t \in T |-> None]
    /\ ok = [t \in T |-> FALSE]
    /\ probes = [t \in T |-> 0]
    /\ firstProbe = [t \in T |-> "none"]
    /\ startSession = [t \in T |-> None]
    /\ startIndex = [t \in T |-> 0]
    /\ startCreated = [t \in T |-> 0]
    /\ changed = [t \in T |-> FALSE]
    /\ probeLog = [t \in T |-> <<>>]
    /\ steady = [t \in T |-> {}]
    /\ sweepStart = [t \in T |-> 0]
    /\ sweepLog = [t \in T |-> <<>>]

InitClient ==
    /\ client = "none"
    /\ modSession = None
    /\ request = NoRequest
    /\ result = "unset"

\* Nobody signs anything.
InitSignIdle ==
    /\ params = <<>>
    /\ api_secret = "secret"
    /\ sigState = "ready"
    /\ signature = NoSignature
    /\ prevParams = <<>>
    /\ prevSignature = NoSignature

Init ==
    /\ InitPool
    /\ InitThreads({1})
    /\ InitClient
    /\ InitSignIdle

(* --------------------- calls of the public operations ----------------- *)

\* Bookkeeping at the start of a public call of thread t running o.
BeginCall(t, o) ==
    /\ pc[t] = "idle"
    /\ created < MaxSessions
    /\ op' = [op EXCEPT ![t] = o]
    /\ probes' = [probes EXCEPT ![t] = 0]
    /\ firstProbe' = [firstProbe EXCEPT ![t] = "none"]
    /\ startSession' = [startSession EXCEPT ![t] = session]
    /\ startIndex' = [startIndex EXCEPT ![t] = proxy_index]
    /\ startCreated' = [startCreated EXCEPT ![t] = created]
    /\ changed' = [changed EXCEPT ![t] = FALSE]
    /\ probeLog' = [probeLog EXCEPT ![t] = <<>>]
    /\ steady' = [steady EXCEPT ![t] = {i \in Indices : TestProxy(i)}]

\* The frame of thread t's public call is gone: locals and bookkeeping
\* return to their initial values.
EndCall(t) ==
    /\ pc' = [pc EXCEPT ![t] = "idle"]
    /\ op' = [op EXCEPT ![t] = "none"]
    /\ sweepRet' = [sweepRet EXCEPT ![t] = "none"]
    /\ cnt' = [cnt EXCEPT ![t] = 0]
    /\ proxy_info' = [proxy_info EXCEPT ![t] = 0]
    /\ rv' = [rv EXCEPT ![t] = None]
    /\ ret' = [ret EXCEPT ![t] = None]
    /\ ok' = [ok EXCEPT ![t] = FALSE]
    /\ probes' = [probes EXCEPT ![t] = 0]
    /\ firstProbe' = [firstProbe EXCEPT ![t] = "none"]
    /\ startSession' = [startSession EXCEPT ![t] = None]
    /\ startIndex' = [startIndex EXCEPT ![t] = 0]
    /\ startCreated' = [startCreated EXCEPT ![t] = 0]
    /\ changed' = [changed EXCEPT ![t] = FALSE]
    /\ probeLog' = [probeLog EXCEPT ![t] = <<>>]
    /\ steady' = [steady EXCEPT ![t] = {}]
    /\ sweepStart' = [sweepStart EXCEPT ![t] = 0]
    /\ sweepLog' = [sweepLog EXCEPT ![t] = <<>>]

\* Entering _get_session_with_working_proxy, to return to `site`.
StartSweep(t, site) ==
    /\ pc' = [pc EXCEPT ![t] = "sweep_loop"]
    /\ cnt' = [cnt EXCEPT ![t] = 0]
    /\ sweepRet' = [sweepRet EXCEPT ![t] = site]
    /\ sweepStart' = [sweepStart EXCEPT ![t] = proxy_index]
    /\ sweepLog' = [sweepLog EXCEPT ![t] = <<>>]

\* One more _test_proxy call of thread t, with outcome r.
CountProbe(t, r) ==
    /\ probes' = [probes EXCEPT ![t] = @ + 1]
    /\ firstProbe' = [firstProbe EXCEPT ![t] =
                        IF @ = "none" THEN (IF r THEN "ok" ELSE "fail") ELSE @]
    /\ probeLog' = [probeLog EXCEPT ![t] = Append(@, <<proxy_info[t], r>>)]

\* One more _test_proxy call in the sweep of thread t, with outcome r.
CountSweepProbe(t, r) ==
    /\ CountProbe(t, r)
    /\ sweepLog' = [sweepLog EXCEPT ![t] = Append(@, <<proxy_info[t], r>>)]

\* A caller invokes get_working_session.
CallGetWorkingSession(t) ==
    /\ BeginCall(t, "gws")
    /\ pc' = [pc EXCEPT ![t] = "gws_check"]
    /\ UNCHANGED <<poolVars, envVars, threads, sweepRet, cnt, proxy_info, rv, ret, ok,
                   clientVars, signVars, sweepVars>>

\* A caller invokes initialize_session, which logs and calls
\* get_working_session.
CallInitializeSession(t) ==
    /\ BeginCall(t, "init")
    /\ pc' = [pc EXCEPT ![t] = "gws_check"]
    /\ UNCHANGED <<poolVars, envVars, threads, sweepRet, cnt, proxy_info, rv, ret, ok,
                   clientVars, signVars, sweepVars>>

\* A caller invokes test_current_proxy.
CallTestCurrentProxy(t) ==
    /\ BeginCall(t, "tcp")
    /\ pc' = [pc EXCEPT ![t] = "tcp_check"]
    /\ UNCHANGED <<poolVars, envVars, threads, sweepRet, cnt, proxy_info, rv, ret, ok,
                   clientVars, signVars, sweepVars>>

(* ----------------------- get_working_session -------------------------- *)

\* Line 130-131: no session, so sweep and assign the result.
GwsUnbound(t) ==
    /\ pc[t] = "gws_check"
    /\ ~Truthy(session)
    /\ StartSweep(t, "gws_assign")
    /\ UNCHANGED <<poolVars, envVars, threads, op, proxy_info, rv, ret, ok, callVars,
                   clientVars, signVars>>

\* Line 132-133: a session is bound, so call test_current_proxy.
GwsBound(t) ==
    /\ pc[t] = "gws_check"
    /\ Truthy(session)
    /\ pc' = [pc EXCEPT ![t] = "tcp_check"]
    /\ UNCHANGED <<poolVars, envVars, threads, op, sweepRet, cnt, proxy_info, rv, ret,
                   ok, callVars, clientVars, signVars, sweepVars>>

\* Line 133 with the test inverted: sweep although the probe succeeded.
GwsReuseSweeps(t) ==
    /\ pc[t] = "gws_after_tcp"
    /\ ok[t]
    /\ StartSweep(t, "gws_assign")
    /\ UNCHANGED <<poolVars, envVars, threads, op, proxy_info, rv, ret, ok, callVars,
                   clientVars, signVars>>

\* Line 133, test_current_proxy returned True: nothing more to do.
GwsReuse(t) ==
    /\ pc[t] = "gws_after_tcp"
    /\ ok[t]
    /\ pc' = [pc EXCEPT ![t] = "gws_ret"]
    /\ UNCHANGED <<poolVars, envVars, threads, op, sweepRet, cnt, proxy_info, rv, ret,
                   ok, callVars, clientVars, signVars, sweepVars>>

\* Line 133-135, test_current_proxy returned False: sweep (again) and
\* assign the result.
GwsFailover(t) ==
    /\ pc[t] = "gws_after_tcp"
    /\ ~ok[t]
    /\ StartSweep(t, "gws_assign")
    /\ UNCHANGED <<poolVars, envVars, threads, op, proxy_info, rv, ret, ok, callVars,
                   clientVars, signVars>>

\* Lines 131 and 135: self.session = <result of the sweep>.
GwsAssign(t) ==
    /\ pc[t] = "gws_assign"
    /\ session' = rv[t]
    /\ pc' = [pc EXCEPT ![t] = "gws_ret"]
    /\ UNCHANGED <<proxy_list, proxy_index, envVars, threads, op, sweepRet, cnt,
                   proxy_info, rv, ret, ok, callVars, clientVars, signVars, sweepVars>>

\* Line 137: return self.session (the value is read here).
GwsReturn(t) ==
    /\ pc[t] = "gws_ret"
    /\ ret' = [ret EXCEPT ![t] = session]
    /\ pc' = [pc EXCEPT ![t] = "gws_done"]
    /\ UNCHANGED <<poolVars, envVars, threads, op, sweepRet, cnt, proxy_info, rv, ok,
                   callVars, clientVars, signVars, sweepVars>>

\* The caller of get_working_session or initialize_session has the
\* returned session.
GwsExit(t) ==
    /\ pc[t] = "gws_done"
    /\ op[t] \in {"gws", "init"}
    /\ EndCall(t)
    /\ UNCHANGED <<poolVars, envVars, threads, clientVars, signVars>>

(* ------------------------- test_current_proxy ------------------------- *)

\* test_current_proxy returns r: to line 133 of get_working_session or to
\* the public caller.
TcpReturn(t, r) ==
    /\ ok' = [ok EXCEPT ![t] = r]
    /\ pc' = [pc EXCEPT ![t] = IF op[t] = "tcp" THEN "tcp_done" ELSE "gws_after_tcp"]

\* Line 114-115: a session exists, read the candidate at proxy_index.
TcpBound(t) ==
    /\ pc[t] = "tcp_check"
    /\ Truthy(session)
    /\ proxy_info' = [proxy_info EXCEPT ![t] = proxy_index]
    /\ pc' = [pc EXCEPT ![t] = "tcp_test"]
    /\ UNCHANGED <<poolVars, envVars, threads, op, sweepRet, cnt, rv, ret, ok, callVars,
                   clientVars, signVars, sweepVars>>

\* Line 118-121: no session, warn and sweep.
TcpUnbound(t) ==
    /\ pc[t] = "tcp_check"
    /\ ~Truthy(session)
    /\ StartSweep(t, "tcp_assign")
    /\ UNCHANGED <<poolVars, envVars, threads, op, proxy_info, rv, ret, ok, callVars,
                   clientVars, signVars>>

\* Line 116-117: the probe of the bound candidate succeeds, return True.
TcpProbeOk(t) ==
    /\ pc[t] = "tcp_test"
    /\ TestProxy(proxy_info[t])
    /\ CountProbe(t, TRUE)
    /\ TcpReturn(t, TRUE)
    /\ UNCHANGED <<poolVars, envVars, threads, op, sweepRet, cnt, proxy_info, rv, ret,
                   startSession, startIndex, startCreated, changed, steady, clientVars, signVars, sweepVars>>

\* Line 116, 121 with a _rotate_proxy() before the sweep.
TcpProbeFailAdvances(t) ==
    /\ pc[t] = "tcp_test"
    /\ ~TestProxy(proxy_info[t])
    /\ CountProbe(t, FALSE)
    /\ proxy_index' = RotateProxy(proxy_index, N)
    /\ StartSweep(t, "tcp_assign")
    /\ UNCHANGED <<proxy_list, session, envVars, threads, op, proxy_info, rv, ret, ok,
                   startSession, startIndex, startCreated, changed, steady, clientVars, signVars>>

\* Line 116, 121: the probe of the bound candidate fails, fall through to
\* the sweep.
TcpProbeFail(t) ==
    /\ pc[t] = "tcp_test"
    /\ ~TestProxy(proxy_info[t])
    /\ CountProbe(t, FALSE)
    /\ \E e \in ProbeFailures(proxy_info[t]) :
          IF ReturnsFalse(e)
          THEN StartSweep(t, "tcp_assign")
          ELSE /\ pc' = [pc EXCEPT ![t] = "raised"]
               /\ UNCHANGED <<cnt, sweepRet, sweepVars>>
    /\ UNCHANGED <<poolVars, envVars, threads, op, proxy_info, rv, ret, ok,
                   startSession, startIndex, startCreated, changed, steady, clientVars, signVars>>

\* Line 121-122 with "return True" after the sweep.
TcpAssignReturnsTrue(t) ==
    /\ pc[t] = "tcp_assign"
    /\ session' = rv[t]
    /\ TcpReturn(t, TRUE)
    /\ UNCHANGED <<proxy_list, proxy_index, envVars, threads, op, sweepRet, cnt,
                   proxy_info, rv, ret, callVars, clientVars, signVars, sweepVars>>

\* Line 121-122: self.session = <result of the sweep>; return whether it
\* is not None.
TcpAssign(t) ==
    /\ pc[t] = "tcp_assign"
    /\ session' = rv[t]
    /\ TcpReturn(t, rv[t] # None)
    /\ UNCHANGED <<proxy_list, proxy_index, envVars, threads, op, sweepRet, cnt,
                   proxy_info, rv, ret, callVars, clientVars, signVars, sweepVars>>

\* The public caller of test_current_proxy has the returned bool.
TcpExit(t) ==
    /\ pc[t] = "tcp_done"
    /\ EndCall(t)
    /\ UNCHANGED <<poolVars, envVars, threads, clientVars, signVars>>

(* ------------------ _get_session_with_working_proxy ------------------- *)

\* Line 95-96: another iteration, read the candidate at proxy_index.
SweepNext(t) ==
    /\ pc[t] = "sweep_loop"
    /\ cnt[t] < SweepLimit(N)
    /\ proxy_info' = [proxy_info EXCEPT ![t] = proxy_index]
    /\ pc' = [pc EXCEPT ![t] = "sweep_test"]
    /\ UNCHANGED <<poolVars, envVars, threads, op, sweepRet, cnt, rv, ret, ok, callVars,
                   clientVars, signVars, sweepVars>>

\* Line 99: the probe succeeds.
SweepProbeOk(t) ==
    /\ pc[t] = "sweep_test"
    /\ TestProxy(proxy_info[t])
    /\ CountSweepProbe(t, TRUE)
    /\ pc' = [pc EXCEPT ![t] = "sweep_bind"]
    /\ UNCHANGED <<poolVars, envVars, threads, op, sweepRet, cnt, proxy_info, rv, ret, ok,
                   startSession, startIndex, startCreated, changed, steady, sweepStart,
                   clientVars, signVars>>

\* Line 99, 103 with "return None" in place of the rotation.
SweepProbeFailGivesUp(t) ==
    /\ pc[t] = "sweep_test"
    /\ ~TestProxy(proxy_info[t])
    /\ CountSweepProbe(t, FALSE)
    /\ rv' = [rv EXCEPT ![t] = None]
    /\ pc' = [pc EXCEPT ![t] = sweepRet[t]]
    /\ UNCHANGED <<poolVars, envVars, threads, op, sweepRet, cnt, proxy_info, ret, ok,
                   startSession, startIndex, startCreated, changed, steady, sweepStart,
                   clientVars, signVars>>

\* Line 99: the probe fails.
SweepProbeFail(t) ==
    /\ pc[t] = "sweep_test"
    /\ ~TestProxy(proxy_info[t])
    /\ CountSweepProbe(t, FALSE)
    /\ \E e \in ProbeFailures(proxy_info[t]) :
          pc' = [pc EXCEPT ![t] = IF ReturnsFalse(e) THEN "sweep_rotate" ELSE "raised"]
    /\ UNCHANGED <<poolVars, envVars, threads, op, sweepRet, cnt, proxy_info, rv, ret, ok,
                   startSession, startIndex, startCreated, changed, steady, sweepStart,
                   clientVars, signVars>>

\* Line 100-101 with a _rotate_proxy() after the binding.
SweepBindThenRotate(t) ==
    /\ pc[t] = "sweep_bind"
    /\ session' = SetProxyForSession(proxy_info[t], created + 1)
    /\ created' = created + 1
    /\ proxy_index' = RotateProxy(proxy_index, N)
    /\ rv' = [rv EXCEPT ![t] = session']
    /\ pc' = [pc EXCEPT ![t] = sweepRet[t]]
    /\ UNCHANGED <<proxy_list, alive, threads, op, sweepRet, cnt,
                   proxy_info, ret, ok, callVars, clientVars, signVars, sweepVars>>

\* Line 100-101: _set_proxy_for_session(proxy_info); return self.session.
SweepBind(t) ==
    /\ pc[t] = "sweep_bind"
    /\ session' = SetProxyForSession(proxy_info[t], created + 1)
    /\ created' = created + 1
    /\ rv' = [rv EXCEPT ![t] = session']
    /\ pc' = [pc EXCEPT ![t] = sweepRet[t]]
    /\ UNCHANGED <<proxy_list, proxy_index, alive, threads, op, sweepRet, cnt,
                   proxy_info, ret, ok, callVars, clientVars, signVars, sweepVars>>

\* Line 103 with _rotate_proxy() also discarding the session.
SweepRotateDropsSession(t) ==
    /\ pc[t] = "sweep_rotate"
    /\ proxy_index' = RotateProxy(proxy_index, N)
    /\ session' = None
    /\ cnt' = [cnt EXCEPT ![t] = @ + 1]
    /\ pc' = [pc EXCEPT ![t] = "sweep_loop"]
    /\ UNCHANGED <<proxy_list, envVars, threads, op, sweepRet, proxy_info,
                   rv, ret, ok, callVars, clientVars, signVars, sweepVars>>

\* Line 103: _rotate_proxy(), then the next iteration.
SweepRotate(t) ==
    /\ pc[t] = "sweep_rotate"
    /\ proxy_index' = RotateProxy(proxy_index, N)
    /\ cnt' = [cnt EXCEPT ![t] = @ + 1]
    /\ pc' = [pc EXCEPT ![t] = "sweep_loop"]
    /\ UNCHANGED <<proxy_list, session, envVars, threads, op, sweepRet, proxy_info,
                   rv, ret, ok, callVars, clientVars, signVars, sweepVars>>

\* Line 106 returning self.session instead of None.
SweepExhaustedKeepsSession(t) ==
    /\ pc[t] = "sweep_loop"
    /\ ~(cnt[t] < SweepLimit(N))
    /\ rv' = [rv EXCEPT ![t] = session]
    /\ pc' = [pc EXCEPT ![t] = sweepRet[t]]
    /\ UNCHANGED <<poolVars, envVars, threads, op, sweepRet, cnt, proxy_info, ret, ok,
                   callVars, clientVars, signVars, sweepVars>>

\* Line 105-106: the loop is exhausted, return None.
SweepExhausted(t) ==
    /\ pc[t] = "sweep_loop"
    /\ ~(cnt[t] < SweepLimit(N))
    /\ rv' = [rv EXCEPT ![t] = None]
    /\ pc' = [pc EXCEPT ![t] = sweepRet[t]]
    /\ UNCHANGED <<poolVars, envVars, threads, op, sweepRet, cnt, proxy_info, ret, ok,
                   callVars, clientVars, signVars, sweepVars>>

(* ----------------------------- environment ---------------------------- *)

\* A candidate proxy dies or comes back (a candidate of an unsupported type
\* is never connected to, so it has no liveness to change).
Flip(i) ==
    /\ proxy_list[i + 1] \in SupportedTypes
    /\ alive' = [alive EXCEPT ![i] = ~@]
    /\ changed' = [t \in threads |-> pc[t] # "idle"]
    /\ steady' = [t \in threads |-> steady[t] \ {i}]
    /\ UNCHANGED <<poolVars, created, threadVars, probes, firstProbe, startSession,
                   startIndex, startCreated, probeLog, clientVars, signVars, sweepVars>>

(* -------------------------- BinanceCoreClient ------------------------- *)

\* api_key and api_secret given to the client.
ApiKey == "key"
ApiSecret == "secret"

\* Arguments the endpoint methods are called with.
Symbol == <<"BTCUSDT">>
OrderTypes == {"MARKET", "LIMIT", "LIMIT_MAKER"}

\* Utils.get_current_timestamp_ms(), as urlencode renders it.
Timestamps == {<<"1700000000000">>}

\* BinanceCoreClient.__init__, lines 60-61: a fresh ProxyManager, then
\* initialize_session().
ClientInit(t) ==
    /\ client = "none"
    /\ \A u \in threads : pc[u] = "idle"
    /\ proxy_index = 0 /\ session = None /\ created = 0
    /\ BeginCall(t, "client")
    /\ pc' = [pc EXCEPT ![t] = "gws_check"]
    /\ client' = "constructing"
    /\ UNCHANGED <<poolVars, envVars, threads, sweepRet, cnt, proxy_info, rv, ret, ok,
                   modSession, request, result, signVars, sweepVars>>

\* Lines 61-66: self.session = <returned session>, handed to the three
\* endpoint modules.
ClientBuilt(t) ==
    /\ pc[t] = "gws_done"
    /\ op[t] = "client"
    /\ modSession' = ret[t]
    /\ client' = "built"
    /\ EndCall(t)
    /\ UNCHANGED <<poolVars, envVars, threads, request, result, signVars>>

\* The request of an endpoint method that puts a 'signature' placeholder
\* into params before signing them.
SignedRequestPlaceholder(m, p) ==
    [module |-> m, session |-> modSession, pool |-> session,
     signed |-> <<<<"signature", <<>>>>>> \o p,
     params |-> DictSet(<<<<"signature", <<>>>>>> \o p, "signature",
                        <<GenerateSignature(<<<<"signature", <<>>>>>> \o p, ApiSecret)>>),
     headers |-> GenerateHeaders(ApiKey)]

\* The request an endpoint method of module m sends with params p.
SignedRequest(m, p) ==
    [module |-> m, session |-> modSession, pool |-> session, signed |-> p,
     params |-> DictSet(p, "signature", <<GenerateSignature(p, ApiSecret)>>),
     headers |-> GenerateHeaders(ApiKey)]

\* An endpoint method of thread t sends rq on self.session.
SendRequest(t, rq) ==
    /\ request' = rq
    /\ pc' = [pc EXCEPT ![t] = "http"]
    /\ UNCHANGED result

\* An endpoint method of thread t that falls back to a direct connection
\* where it should return r.
ReturnEarlyDirect(t, r) ==
    /\ request' = [NoRequest EXCEPT !.module = "direct"]
    /\ pc' = [pc EXCEPT ![t] = "http"]
    /\ UNCHANGED result

\* An endpoint method of thread t returns r without sending.
ReturnEarly(t, r) ==
    /\ result' = r
    /\ pc' = [pc EXCEPT ![t] = "ep_done"]
    /\ UNCHANGED request

\* SpotTrading.place_spot_order: self.session.post raises AttributeError on
\* None, which the except clause turns into {}.
PlaceSpotOrder(t) ==
    /\ client = "built"
    /\ pc[t] = "idle"
    /\ \E order_type \in OrderTypes, timestamp \in Timestamps :
        LET base == <<<<"symbol", Symbol>>, <<"side", <<"BUY">>>>,
                      <<"type", <<order_type>>>>, <<"timestamp", timestamp>>>>
            p == CASE order_type = "LIMIT" ->
                        DictUpdate(base, <<<<"timeInForce", <<"GTC">>>>,
                                           <<"price", <<"100">>>>,
                                           <<"quantity", <<"1">>>>>>)
                   [] order_type = "LIMIT_MAKER" ->
                        DictUpdate(base, <<<<"price", <<"100">>>>,
                                           <<"quantity", <<"1">>>>>>)
                   [] OTHER -> DictSet(base, "quantity", <<"1">>)
        IN  IF modSession = None
            THEN ReturnEarly(t, "empty_dict")
            ELSE SendRequest(t, SignedRequest("spot", p))
    /\ UNCHANGED <<poolVars, envVars, threads, op, sweepRet, cnt, proxy_info, rv, ret, ok,
                   callVars, client, modSession, signVars, sweepVars>>

\* MarginTrading.fetch_margin_balance
FetchMarginBalance(t) ==
    /\ client = "built"
    /\ pc[t] = "idle"
    /\ \E is_isolated \in BOOLEAN, hasSymbol \in BOOLEAN, timestamp \in Timestamps :
        LET base == <<<<"timestamp", timestamp>>>>
        IN  IF ~Truthy(modSession)
            THEN ReturnEarly(t, "empty_dict")
            ELSE IF is_isolated /\ ~hasSymbol
            THEN ReturnEarly(t, "empty_dict")
            ELSE SendRequest(t, SignedRequest("margin",
                    IF is_isolated THEN DictSet(base, "symbols", Symbol) ELSE base))
    /\ UNCHANGED <<poolVars, envVars, threads, op, sweepRet, cnt, proxy_info, rv, ret, ok,
                   callVars, client, modSession, signVars, sweepVars>>

\* FuturesTrading.check_futures_balance: the except clause returns None.
CheckFuturesBalance(t) ==
    /\ client = "built"
    /\ pc[t] = "idle"
    /\ \E timestamp \in Timestamps :
        IF modSession = None
        THEN ReturnEarly(t, "none")
        ELSE SendRequest(t, SignedRequest("futures", <<<<"timestamp", timestamp>>>>))
    /\ UNCHANGED <<poolVars, envVars, threads, op, sweepRet, cnt, proxy_info, rv, ret, ok,
                   callVars, client, modSession, signVars, sweepVars>>

\* MarginTrading.place_margin_order
PlaceMarginOrder(t) ==
    /\ client = "built"
    /\ pc[t] = "idle"
    /\ \E order_type \in {"MARKET", "LIMIT"}, hasPrice \in BOOLEAN,
          is_isolated \in BOOLEAN, timestamp \in Timestamps :
        LET base == <<<<"symbol", Symbol>>, <<"side", <<"BUY">>>>,
                      <<"type", <<order_type>>>>, <<"quantity", <<"1">>>>,
                      <<"sideEffectType", <<"NO_SIDE_EFFECT">>>>,
                      <<"timestamp", timestamp>>,
                      <<"isIsolated", <<IF is_isolated THEN "TRUE" ELSE "FALSE">>>>>>
            p == IF order_type = "LIMIT" /\ hasPrice
                 THEN DictSet(base, "price", <<"100">>)
                 ELSE base
        IN  IF ~Truthy(modSession)
            THEN ReturnEarly(t, "empty_dict")
            ELSE SendRequest(t, SignedRequest("margin", p))
    /\ UNCHANGED <<poolVars, envVars, threads, op, sweepRet, cnt, proxy_info, rv, ret, ok,
                   callVars, client, modSession, signVars, sweepVars>>

\* FuturesTrading.create_futures_order, lines 119-134: the params of the
\* order before signing.
FuturesOrderParams(order_type, stop_loss, take_profit, timestamp) ==
    LET base == <<<<"symbol", Symbol>>, <<"side", <<"BUY">>>>,
                  <<"type", <<order_type>>>>, <<"quantity", <<"1.0">>>>,
                  <<"timestamp", timestamp>>>>
        p1 == IF order_type = "LIMIT"
              THEN DictUpdate(base, <<<<"price", <<"100.0">>>>,
                                      <<"timeInForce", <<"GTC">>>>>>)
              ELSE base
        p2 == IF stop_loss
              THEN DictUpdate(p1, <<<<"stopPrice", <<"90.0">>>>,
                                    <<"type", <<"STOP_LOSS_LIMIT">>>>,
                                    <<"timeInForce", <<"GTC">>>>>>)
              ELSE p1
    IN  IF take_profit
        THEN DictUpdate(p2, <<<<"stopPrice", <<"110.0">>>>,
                              <<"type", <<"TAKE_PROFIT_LIMIT">>>>,
                              <<"timeInForce", <<"GTC">>>>>>)
        ELSE p2

\* FuturesTrading.create_futures_order, lines 116-144, after the optional
\* set_leverage: sign and post the order, or None from the except clause.
FuturesOrder(t) ==
    \E order_type \in {"MARKET", "LIMIT"}, stop_loss \in BOOLEAN,
       take_profit \in BOOLEAN, timestamp \in Timestamps :
        IF modSession = None
        THEN ReturnEarly(t, "none")
        ELSE SendRequest(t, SignedRequest("futures",
                FuturesOrderParams(order_type, stop_loss, take_profit, timestamp)))

\* FuturesTrading.create_futures_order without leverage.
CreateFuturesOrder(t) ==
    /\ client = "built"
    /\ pc[t] = "idle"
    /\ FuturesOrder(t)
    /\ UNCHANGED <<poolVars, envVars, threads, op, sweepRet, cnt, proxy_info, rv, ret, ok,
                   callVars, client, modSession, signVars, sweepVars>>

\* FuturesTrading.create_futures_order with leverage, lines 113-114:
\* set_leverage (lines 175-195) signs and posts its own request first; on a
\* missing session its except clause returns None and the order follows.
CreateFuturesOrderLeverage(t) ==
    /\ client = "built"
    /\ pc[t] = "idle"
    /\ \E timestamp \in Timestamps :
        IF modSession = None
        THEN /\ pc' = [pc EXCEPT ![t] = "leverage"]
             /\ UNCHANGED <<request, result>>
        ELSE /\ request' = SignedRequest("futures",
                              <<<<"symbol", Symbol>>, <<"leverage", <<"5">>>>,
                                <<"timestamp", timestamp>>>>)
             /\ pc' = [pc EXCEPT ![t] = "leverage"]
             /\ UNCHANGED result
    /\ UNCHANGED <<poolVars, envVars, threads, op, sweepRet, cnt, proxy_info, rv, ret, ok,
                   callVars, client, modSession, signVars, sweepVars>>

\* set_leverage has returned (its result is dropped): the order follows.
LeverageDone(t) ==
    /\ pc[t] = "leverage"
    /\ FuturesOrder(t)
    /\ UNCHANGED <<poolVars, envVars, threads, op, sweepRet, cnt, proxy_info, rv, ret, ok,
                   callVars, client, modSession, signVars, sweepVars>>

\* response.raise_for_status(); return response.json() -- or the except
\* clause: {} in SpotTrading and MarginTrading, None in FuturesTrading.
HttpResponse(t) ==
    /\ pc[t] = "http"
    /\ \E httpOk \in BOOLEAN :
        result' = IF httpOk THEN "json"
                  ELSE IF request.module = "futures" THEN "none" ELSE "empty_dict"
    /\ pc' = [pc EXCEPT ![t] = "ep_done"]
    /\ UNCHANGED <<poolVars, envVars, threads, op, sweepRet, cnt, proxy_info, rv, ret, ok,
                   callVars, client, modSession, request, signVars, sweepVars>>

\* The endpoint method has returned.
EndpointExit(t) ==
    /\ pc[t] = "ep_done"
    /\ pc' = [pc EXCEPT ![t] = "idle"]
    /\ request' = NoRequest
    /\ result' = "unset"
    /\ UNCHANGED <<poolVars, envVars, threads, op, sweepRet, cnt, proxy_info, rv, ret, ok,
                   callVars, client, modSession, signVars, sweepVars>>

(* ------------------------------- Next --------------------------------- *)

Next ==
    \/ \E t \in threads : CallGetWorkingSession(t)
    \/ \E t \in threads : CallInitializeSession(t)
    \/ \E t \in threads : CallTestCurrentProxy(t)
    \/ \E t \in threads : GwsUnbound(t)
    \/ \E t \in threads : GwsBound(t)
    \/ \E t \in threads : GwsReuse(t)
    \/ \E t \in threads : GwsFailover(t)
    \/ \E t \in threads : GwsAssign(t)
    \/ \E t \in threads : GwsReturn(t)
    \/ \E t \in threads : GwsExit(t)
    \/ \E t \in threads : TcpBound(t)
    \/ \E t \in threads : TcpUnbound(t)
    \/ \E t \in threads : TcpProbeOk(t)
    \/ \E t \in threads : TcpProbeFail(t)
    \/ \E t \in threads : TcpAssign(t)
    \/ \E t \in threads : TcpExit(t)
    \/ \E t \in threads : SweepNext(t)
    \/ \E t \in threads : SweepProbeOk(t)
    \/ \E t \in threads : SweepProbeFail(t)
    \/ \E t \in threads : SweepBind(t)
    \/ \E t \in threads : SweepRotate(t)
    \/ \E t \in threads : SweepExhausted(t)
    \/ \E t \in threads : ClientInit(t)
    \/ \E t \in threads : ClientBuilt(t)
    \/ \E t \in threads : PlaceSpotOrder(t)
    \/ \E t \in threads : FetchMarginBalance(t)
    \/ \E t \in threads : CheckFuturesBalance(t)
    \/ \E t \in threads : PlaceMarginOrder(t)
    \/ \E t \in threads : CreateFuturesOrder(t)
    \/ \E t \in threads : CreateFuturesOrderLeverage(t)
    \/ \E t \in threads : LeverageDone(t)
    \/ \E t \in threads : HttpResponse(t)
    \/ \E t \in threads : EndpointExit(t)
    \/ \E i \in Indices : Flip(i)

Spec == Init /\ [][Next]_vars

(* ------------- two callers sharing one ProxyManager ------------------- *)

\* Two threads hold the same ProxyManager; the class has no lock, so their
\* get_working_session calls interleave between any two of its steps.
InitConc ==
    /\ InitPool
    /\ Len(proxy_list) \in 1..MaxConcProxies
    /\ \A i \in Indices : proxy_list[i + 1] \in SupportedTypes
    /\ InitThreads({1, 2})
    /\ InitClient
    /\ InitSignIdle

\* A candidate dies or comes back while no call is running.
FlipBetweenCalls(i) ==
    /\ \A t \in threads : pc[t] = "idle"
    /\ Flip(i)

NextConc ==
    \/ \E t \in threads : CallGetWorkingSession(t)
    \/ \E t \in threads : GwsUnbound(t)
    \/ \E t \in threads : GwsBound(t)
    \/ \E t \in threads : GwsReuse(t)
    \/ \E t \in threads : GwsFailover(t)
    \/ \E t \in threads : GwsAssign(t)
    \/ \E t \in threads : GwsReturn(t)
    \/ \E t \in threads : GwsExit(t)
    \/ \E t \in threads : TcpBound(t)
    \/ \E t \in threads : TcpUnbound(t)
    \/ \E t \in threads : TcpProbeOk(t)
    \/ \E t \in threads : TcpProbeFail(t)
    \/ \E t \in threads : TcpAssign(t)
    \/ \E t \in threads : SweepNext(t)
    \/ \E t \in threads : SweepProbeOk(t)
    \/ \E t \in threads : SweepProbeFail(t)
    \/ \E t \in threads : SweepBind(t)
    \/ \E t \in threads : SweepRotate(t)
    \/ \E t \in threads : SweepExhausted(t)
    \/ \E i \in Indices : FlipBetweenCalls(i)

SpecConc == InitConc /\ [][NextConc]_vars

(* ---------------- callers of Utils.generate_signature ---------------- *)

\* Keys, values and secrets of the mappings signed on their own.
SignKeys == {"symbol", "timestamp", "signature"}
SignValues == {<<"BTCUSDT">>, <<"1700000000000">>, <<"a", " ", "&">>}
Secrets == {"abc", "abd"}

\* The dicts of at most MaxParams items: no key twice.
ParamSets ==
    {p \in UNION {[1..n -> SignKeys \X SignValues] : n \in 0..MaxParams} :
        \A i, j \in DOMAIN p : p[i][1] = p[j][1] => i = j}

\* A caller holds a mapping and a secret; the pool is not used.
InitSign ==
    /\ proxy_list = <<>>
    /\ proxy_index = 0
    /\ session = None
    /\ alive = <<>>
    /\ created = 0
    /\ InitThreads({1})
    /\ InitClient
    /\ params \in ParamSets
    /\ api_secret \in Secrets
    /\ sigState = "ready"
    /\ signature = NoSignature
    /\ prevParams = <<>>
    /\ prevSignature = NoSignature

\* signature = Utils.generate_signature(params, api_secret)
Sign ==
    /\ sigState = "ready"
    /\ signature' = GenerateSignature(params, api_secret)
    /\ sigState' = "signed"
    /\ UNCHANGED <<poolVars, envVars, threadVars, callVars, sweepVars, clientVars, params,
                   api_secret, prevParams, prevSignature>>

\* The caller keeps the result and prepares the same call again.
SignAgain ==
    /\ sigState = "signed"
    /\ prevParams' = params
    /\ prevSignature' = signature
    /\ signature' = NoSignature
    /\ sigState' = "ready"
    /\ UNCHANGED <<poolVars, envVars, threadVars, callVars, sweepVars, clientVars, params,
                   api_secret>>

\* The caller keeps the result and builds the mapping again with the items
\* i and i+1 inserted in the other order.
Reorder(i) ==
    /\ sigState = "signed"
    /\ i + 1 \in DOMAIN params
    /\ prevParams' = params
    /\ prevSignature' = signature
    /\ params' = [params EXCEPT ![i] = params[i + 1], ![i + 1] = params[i]]
    /\ signature' = NoSignature
    /\ sigState' = "ready"
    /\ UNCHANGED <<poolVars, envVars, threadVars, callVars, sweepVars, clientVars, api_secret>>

NextSign ==
    \/ Sign
    \/ SignAgain
    \/ \E i \in 1..MaxParams : Reorder(i)

SpecSign == InitSign /\ [][NextSign]_vars

(* ------------------------------ properties ---------------------------- *)

\* The candidates whose probe succeeds now.
LiveSet == {i \in Indices : TestProxy(i)}

\* Thread t's get_working_session (called directly, through
\* initialize_session or by the client's constructor) has just returned
\* ret[t].
GwsDone(t) == pc[t] = "gws_done"

\* The first candidate whose probe succeeds, in the cyclic order
\* k, k+1, ..., k-1.
FirstLiveFrom(k) ==
    LET d == CHOOSE d \in 0..(N - 1) :
                /\ TestProxy((k + d) % N)
                /\ \A e \in 0..(d - 1) : ~TestProxy((k + e) % N)
    IN  (k + d) % N

\* C1 -- Rotation correctness: a get_working_session call that starts with
\* session = None and proxy_index = 0 on a pool where only candidate k
\* probes successfully (and liveness does not change during the call) makes
\* exactly k+1 probes, ends with proxy_index = k and returns a session
\* bound to proxy_list[k], which is also the stored session.
C1_RotationCorrectness ==
    \A t \in threads : \A k \in Indices :
        (/\ GwsDone(t)
         /\ ~changed[t]
         /\ startSession[t] = None
         /\ startIndex[t] = 0
         /\ LiveSet = {k})
        => /\ probes[t] = k + 1
           /\ probes[t] <= N
           /\ proxy_index = k
           /\ ret[t] # None
           /\ ret[t].proxy = k
           /\ session = ret[t]

\* A call as in C1 has returned where the only live candidate is not the
\* first one, so the sweep had to rotate.
C1_Witness ==
    \E t \in threads : \E k \in Indices :
        /\ GwsDone(t)
        /\ ~changed[t]
        /\ startSession[t] = None
        /\ startIndex[t] = 0
        /\ LiveSet = {k}
        /\ k >= 1

\* C2 -- All-dead pool: a get_working_session call that starts with
\* session = None on a pool of N >= 1 candidates all of whose probes fail
\* returns None after exactly N probes and leaves session = None.
C2_AllDead ==
    \A t \in threads :
        (/\ GwsDone(t)
         /\ ~changed[t]
         /\ N >= 1
         /\ startSession[t] = None
         /\ LiveSet = {})
        => /\ ret[t] = None
           /\ probes[t] = N
           /\ session = None

\* A call as in C2 has returned on a pool of at least two candidates.
C2_Witness ==
    \E t \in threads :
        /\ GwsDone(t)
        /\ ~changed[t]
        /\ N >= 2
        /\ startSession[t] = None
        /\ LiveSet = {}

\* C3 -- Reuse without rebinding: a get_working_session call that starts
\* with a session bound and whose probe of the bound proxy succeeds makes
\* exactly one probe, constructs no session, leaves proxy_index unchanged
\* and returns the very session that was bound.
C3_ReuseWithoutRebinding ==
    \A t \in threads :
        (/\ GwsDone(t)
         /\ startSession[t] # None
         /\ firstProbe[t] = "ok")
        => /\ probes[t] = 1
           /\ created = startCreated[t]
           /\ proxy_index = startIndex[t]
           /\ ret[t] = startSession[t]
           /\ session = startSession[t]

\* A call as in C3 has returned, on a pool that was bound to a candidate
\* other than the first.
C3_Witness ==
    \E t \in threads :
        /\ GwsDone(t)
        /\ startSession[t] # None
        /\ firstProbe[t] = "ok"
        /\ startIndex[t] >= 1
        /\ op[t] = "gws"

\* C4 -- Failover continuity: a get_working_session call that starts bound
\* to candidate k and finds k's probe failing, with liveness unchanged
\* during the call, makes a bounded number of probes (it does not loop)
\* and returns None, leaving session = None, if no candidate is live, and
\* otherwise returns the session bound to the first live candidate in the
\* order k, k+1, ..., k-1, with proxy_index at that candidate.
C4_FailoverContinuity ==
    \A t \in threads :
        (/\ startSession[t] # None
         /\ firstProbe[t] = "fail"
         /\ op[t] \in {"gws", "init", "client"})
        => /\ probes[t] <= 1 + 2 * N
           /\ cnt[t] <= N
           /\ (GwsDone(t) /\ ~changed[t]) =>
                IF LiveSet = {}
                THEN ret[t] = None /\ session = None
                ELSE /\ ret[t] # None
                     /\ ret[t].proxy = FirstLiveFrom(startIndex[t])
                     /\ proxy_index = ret[t].proxy
                     /\ session = ret[t]
                     /\ ret[t] # startSession[t]

\* A failover as in C4 has returned a session bound to a candidate that
\* is neither k nor k+1: the sweep went past a second dead candidate.
C4_Witness ==
    \E t \in threads :
        /\ GwsDone(t)
        /\ ~changed[t]
        /\ startSession[t] # None
        /\ startSession[t].proxy = startIndex[t]
        /\ firstProbe[t] = "fail"
        /\ ret[t] # None
        /\ ret[t].proxy # startIndex[t]
        /\ ret[t].proxy # (startIndex[t] + 1) % N

\* C5 -- Single sweep per call (as claimed): a get_working_session call
\* makes at most N probes when it starts with no session and at most 1 + N
\* probes when it starts with a session bound.
C5_SingleSweep ==
    \A t \in threads :
        op[t] \in {"gws", "init", "client"}
        => probes[t] <= (IF startSession[t] = None THEN N ELSE 1 + N)

\* C6 -- Session/cursor invariant (as claimed): in every state, a stored
\* session is the one constructed for proxy_list[proxy_index].
C6_SessionAtCursor ==
    session # None => session.proxy = proxy_index

\* C7 -- Requests use the pool's session (as claimed): every request an
\* endpoint method has sent went out on the session the ProxyManager holds
\* at that moment.
C7_RequestOnPoolSession ==
    request # NoRequest => request.session = request.pool

\* C8 -- Empty proxy_list rejected (as claimed): no pool with zero
\* candidates is reachable, so no operation runs on one and no client is
\* built on one.
C8_NoEmptyPool ==
    (client # "none" \/ \E t \in threads : pc[t] # "idle") => N >= 1

\* C8, amended -- an empty proxy_list is accepted: on the pool of zero
\* candidates no probe is ever attempted, proxy_index stays 0, session
\* stays None, get_working_session returns None, test_current_proxy
\* returns False, and the client built on it hands session None to its
\* endpoint modules, which send nothing.
C8_EmptyPoolAccepted ==
    N = 0 =>
        /\ session = None
        /\ proxy_index = 0
        /\ created = 0
        /\ request = NoRequest
        /\ client = "built" => modSession = None
        /\ \A t \in threads :
            /\ pc[t] \notin {"sweep_test", "tcp_test", "sweep_bind", "sweep_rotate"}
            /\ probes[t] = 0
            /\ GwsDone(t) => ret[t] = None
            /\ pc[t] = "tcp_done" => ~ok[t]

\* A client has been built on the pool of zero candidates and one of its
\* endpoint methods has returned.
C8_Witness ==
    /\ N = 0
    /\ client = "built"
    /\ \E t \in threads : pc[t] = "ep_done"

\* C9 -- Precondition enforcement (as claimed): generate_signature called
\* with a mapping that has the key 'signature' returns no signature.
C9_SignatureKeyRejected ==
    (sigState = "signed" /\ HasKey(params, "signature"))
    => signature = NoSignature

\* C10 -- Signing follows insertion order and is deterministic: the digest
\* is keyed with the secret given, and the message hashed carries the keys
\* of the mapping in insertion order, one "=" per item and one "&" between
\* items; a second call with the same mapping and secret returns the same
\* signature; a call with two items reordered hashes another message, the
\* reordered one.
C10_InsertionOrderSigning ==
    sigState = "signed" =>
        /\ signature.key = api_secret
        /\ SelectSeq(signature.msg, LAMBDA x : x \in SignKeys) = KeysOf(params)
        /\ Len(SelectSeq(signature.msg, LAMBDA x : x = "=")) = Len(params)
        /\ Len(SelectSeq(signature.msg, LAMBDA x : x = "&")) =
             (IF params = <<>> THEN 0 ELSE Len(params) - 1)
        /\ (prevSignature # NoSignature /\ prevParams = params)
             => signature = prevSignature
        /\ (prevSignature # NoSignature /\ prevParams # params)
             => /\ signature.msg # prevSignature.msg
                /\ SelectSeq(prevSignature.msg, LAMBDA x : x \in SignKeys)
                     = KeysOf(prevParams)

\* A mapping of three items has been signed after the same mapping with
\* two items in the other order, which is not the alphabetical one.
C10_Witness ==
    /\ sigState = "signed"
    /\ Len(params) = 3
    /\ prevSignature # NoSignature
    /\ prevParams # params
    /\ KeysOf(params) # AlphabeticalKeys
    /\ KeysOf(prevParams) # AlphabeticalKeys

\* C12 -- Probe failures are never propagated: no step of a caller leaves
\* _test_proxy by an exception; a failed probe, and the rotation that
\* follows it in the sweep, leave proxy_list, session, the sessions
\* constructed and the client untouched; and a get_working_session call
\* ends with None or with a session the pool constructed.
C12_ProbeFailureSwallowed ==
    [][\A t \in threads :
          /\ pc'[t] # "raised"
          /\ (/\ pc[t] \in {"sweep_test", "tcp_test"}
              /\ Len(probeLog'[t]) = Len(probeLog[t]) + 1
              /\ ~probeLog'[t][Len(probeLog'[t])][2])
             => /\ pc'[t] \in {"sweep_rotate", "sweep_loop"}
                /\ UNCHANGED <<proxy_list, proxy_index, session, created, clientVars>>
          /\ (pc[t] = "sweep_rotate" /\ pc'[t] # "sweep_rotate")
             => /\ pc'[t] = "sweep_loop"
                /\ UNCHANGED <<proxy_list, session, created, clientVars>>
          /\ pc'[t] = "gws_done"
             => \/ ret'[t] = None
                \/ ret'[t].id \in 1..created' /\ ret'[t].proxy \in Indices
      ]_vars

\* A get_working_session call has returned a session after a probe of a
\* candidate of an unsupported type and a probe of a supported candidate
\* that raised.
C12_Witness ==
    \E t \in threads :
        /\ GwsDone(t)
        /\ ret[t] # None
        /\ \E i, j \in DOMAIN probeLog[t] :
              /\ ~probeLog[t][i][2]
              /\ proxy_list[probeLog[t][i][1] + 1] \notin SupportedTypes
              /\ ~probeLog[t][j][2]
              /\ proxy_list[probeLog[t][j][1] + 1] \in SupportedTypes

\* C13 -- Sweep order: the probes of one _get_session_with_working_proxy
\* call started at cursor c visit c, c+1, ..., (c+N-1) mod N in that order,
\* at most N of them (so no candidate twice), and only the last probe made
\* can have succeeded (nothing is probed after a success).
C13_SweepOrder ==
    \A t \in threads :
        /\ Len(sweepLog[t]) <= N
        /\ \A i \in DOMAIN sweepLog[t] :
              /\ sweepLog[t][i][1] = (sweepStart[t] + i - 1) % N
              /\ i < Len(sweepLog[t]) => ~sweepLog[t][i][2]
        /\ \A i, j \in DOMAIN sweepLog[t] :
              sweepLog[t][i][1] = sweepLog[t][j][1] => i = j

\* A sweep started at cursor 1 of three candidates has wrapped around and
\* stopped at its third probe, which succeeded.
C13_Witness ==
    \E t \in threads :
        /\ pc[t] = "sweep_bind"
        /\ N = 3
        /\ sweepStart[t] = 1
        /\ Len(sweepLog[t]) = 3
        /\ sweepLog[t][3] = <<0, TRUE>>

\* C14 -- Invalidation: a get_working_session call that starts with a
\* session bound and in which every probe fails returns None and leaves
\* session = None: the session bound at the start is neither returned nor
\* left in the pool.
C14_BoundToUnbound ==
    \A t \in threads :
        (/\ GwsDone(t)
         /\ startSession[t] # None
         /\ \A i \in DOMAIN probeLog[t] : ~probeLog[t][i][2])
        => /\ ret[t] = None
           /\ session = None
           /\ ret[t] # startSession[t]
           /\ session # startSession[t]

\* A call that started bound on two candidates has returned after probes
\* that all failed, the re-probe of the bound candidate among them.
C14_Witness ==
    \E t \in threads :
        /\ GwsDone(t)
        /\ N = 2
        /\ startSession[t] # None
        /\ Len(probeLog[t]) >= 3
        /\ probeLog[t][1] = <<startSession[t].proxy, FALSE>>
        /\ \A i \in DOMAIN probeLog[t] : ~probeLog[t][i][2]

\* C15 -- A failed re-probe does not advance the cursor: when a call that
\* starts bound finds the candidate at proxy_index dead, the next probe of
\* the call is of the same candidate; and if that second probe succeeds, the
\* call returns a session constructed during the call, bound to that same
\* candidate and stored in the pool, with proxy_index as it was.
C15_ReprobeSameCandidate ==
    \A t \in threads :
        (/\ startSession[t] # None
         /\ Len(probeLog[t]) >= 2
         /\ ~probeLog[t][1][2])
        => /\ probeLog[t][1][1] = startIndex[t]
           /\ probeLog[t][2][1] = startIndex[t]
           /\ (GwsDone(t) /\ probeLog[t][2][2])
              => /\ Len(probeLog[t]) = 2
                 /\ proxy_index = startIndex[t]
                 /\ ret[t] # None
                 /\ ret[t] # startSession[t]
                 /\ ret[t].id > startCreated[t]
                 /\ ret[t].proxy = startIndex[t]
                 /\ session = ret[t]

\* A call on two candidates found the bound candidate 1 dead, probed it
\* again with success and has returned.
C15_Witness ==
    \E t \in threads :
        /\ GwsDone(t)
        /\ N = 2
        /\ startSession[t] # None
        /\ startIndex[t] = 1
        /\ probeLog[t] = <<<<1, FALSE>>, <<1, TRUE>>>>
        /\ ret[t].proxy = 1

\* C16 -- _rotate_proxy: the step of a caller through _rotate_proxy happens
\* on a pool of N >= 1 candidates, moves proxy_index to
\* (proxy_index + 1) mod N, that is one up or from N-1 back to 0, and
\* leaves session and proxy_list as they were.
C16_RotateFrame ==
    [][\A t \in threads :
          (pc[t] = "sweep_rotate" /\ pc'[t] # "sweep_rotate")
          => /\ N >= 1
             /\ proxy_index' = (proxy_index + 1) % N
             /\ proxy_index' = (IF proxy_index = N - 1 THEN 0 ELSE proxy_index + 1)
             /\ session' = session
             /\ proxy_list' = proxy_list
      ]_vars

\* _rotate_proxy has just taken the cursor from the last of three candidates
\* back to 0 while the session bound to the last candidate is still stored.
C16_Witness ==
    \E t \in threads :
        /\ pc[t] = "sweep_loop"
        /\ N = 3
        /\ cnt[t] = 1
        /\ sweepStart[t] = 2
        /\ proxy_index = 0
        /\ session # None
        /\ session.proxy = 2

\* C17 -- No spurious failure: a get_working_session call returns None only
\* if each of the N candidates was probed during the call and that probe
\* failed; so a call during which some candidate was live all the time
\* returns a session.
C17_NoneOnlyIfAllFailed ==
    \A t \in threads :
        GwsDone(t) =>
            /\ ret[t] = None =>
                  \A i \in Indices :
                      \E k \in DOMAIN probeLog[t] : probeLog[t][k] = <<i, FALSE>>
            /\ steady[t] # {} => ret[t] # None

\* A call on three candidates, one of which died while the call ran, has
\* returned None after each of the three failed a probe.
C17_Witness ==
    \E t \in threads :
        /\ GwsDone(t)
        /\ N = 3
        /\ changed[t]
        /\ ret[t] = None
        /\ \A i \in Indices : proxy_list[i + 1] \in SupportedTypes
        /\ \A i \in Indices : <<i, FALSE>> \in {probeLog[t][k] : k \in DOMAIN probeLog[t]}

\* C18 -- Quiescent binding: when a public operation (initialize_session,
\* get_working_session, test_current_proxy) returns with a session stored,
\* that session is bound to the candidate at proxy_index, and the last probe
\* the call made of that candidate succeeded.
C18_QuiescentBinding ==
    \A t \in threads :
        (pc[t] \in {"gws_done", "tcp_done"} /\ session # None)
        => /\ proxy_index \in Indices
           /\ session.proxy = proxy_index
           /\ \E k \in DOMAIN probeLog[t] :
                 /\ probeLog[t][k] = <<proxy_index, TRUE>>
                 /\ \A m \in DOMAIN probeLog[t] :
                       m > k => probeLog[t][m][1] # proxy_index

\* test_current_proxy has returned with a session on candidate 1 of three:
\* the call probed candidate 1 twice, first failing and then succeeding.
C18_Witness ==
    \E t \in threads :
        /\ pc[t] = "tcp_done"
        /\ N = 3
        /\ session # None
        /\ session.proxy = 1
        /\ probeLog[t] = <<<<1, FALSE>>, <<1, TRUE>>>>

\* C19 -- A failed sweep restores the cursor: when
\* _get_session_with_working_proxy returns None, all N probes of the sweep
\* failed, _rotate_proxy ran N times and proxy_index is what it was when
\* the sweep started; a get_working_session call that returns None leaves
\* proxy_index where the call found it.
C19_FailedSweepRestoresCursor ==
    \A t \in threads :
        /\ (pc[t] \in {"gws_assign", "tcp_assign"} /\ rv[t] = None)
           => /\ Len(sweepLog[t]) = N
              /\ \A i \in DOMAIN sweepLog[t] : ~sweepLog[t][i][2]
              /\ cnt[t] = N
              /\ proxy_index = sweepStart[t]
        /\ (GwsDone(t) /\ ret[t] = None) => proxy_index = startIndex[t]

\* A sweep of three candidates started at cursor 2 has failed three times
\* and returned None with the cursor at 2 again.
C19_Witness ==
    \E t \in threads :
        /\ pc[t] = "gws_assign"
        /\ rv[t] = None
        /\ N = 3
        /\ sweepStart[t] = 2
        /\ proxy_index = 2
        /\ Len(sweepLog[t]) = 3

\* C20 -- Cursor in range: on a pool of N >= 1 candidates proxy_index is
\* one of 0 .. N-1 in every reachable state, and so is every index at which
\* a caller has read proxy_list.
C20_CursorInRange ==
    N >= 1 =>
        /\ 0 <= proxy_index
        /\ proxy_index < N
        /\ \A t \in threads :
              pc[t] \in {"tcp_test", "sweep_test", "sweep_bind", "sweep_rotate"}
              => (0 <= proxy_info[t] /\ proxy_info[t] < N)

\* A call that started at cursor 1 of three candidates has returned a
\* session after the cursor wrapped around to 0.
C20_Witness ==
    \E t \in threads :
        /\ GwsDone(t)
        /\ N = 3
        /\ startIndex[t] = 1
        /\ proxy_index = 0
        /\ ret[t] # None
        /\ ret[t].proxy = 0

\* C11 -- Concurrent failover (as claimed): when two threads have called
\* get_working_session on the pool while the same session was bound and
\* both found its proxy dead, then once both calls have returned at most
\* one session was constructed since they started, both hold the same
\* session, which is the one stored, a session is stored if some candidate
\* was live, and the stored session is bound to proxy_list[proxy_index].
C11_OneRebindingPerEpisode ==
    \A t, u \in threads :
        (/\ t # u
         /\ GwsDone(t) /\ GwsDone(u)
         /\ startSession[t] # None
         /\ startSession[u] = startSession[t]
         /\ startCreated[u] = startCreated[t]
         /\ firstProbe[t] = "fail" /\ firstProbe[u] = "fail")
        => /\ created <= startCreated[t] + 1
           /\ ret[t] = ret[u]
           /\ ret[t] = session
           /\ steady[t] # {} => session # None
           /\ session # None => session.proxy = proxy_index

C22_NoRequestWithoutSession ==
    [][/\ (session' # session /\ session' # None)
          => \E t \in threads :
                /\ pc[t] = "sweep_bind"
                /\ sweepLog[t][Len(sweepLog[t])] = <<session'.proxy, TRUE>>
                /\ proxy_list[session'.proxy + 1] \in SupportedTypes
       /\ modSession' # modSession
          => /\ client = "constructing" /\ client' = "built"
             /\ modSession' = session
       /\ (request' # request /\ request' # NoRequest)
          => /\ modSession # None
             /\ request'.session = modSession
             /\ request'.session.id \in 1..created
             /\ request'.session.proxy \in Indices
       /\ \A t \in threads :
             /\ (pc[t] # "http" /\ pc'[t] = "http") => request' # NoRequest
             /\ (client = "built" /\ modSession = None)
                => /\ pc'[t] # "http"
                   /\ request' = NoRequest
                   /\ (pc[t] = "idle" /\ pc'[t] = "ep_done")
                      => result' \in {"empty_dict", "none"}
      ]_vars

\* On a client constructed while both of its two candidates were dead, an
\* endpoint method has returned its empty result and no request is out.
C22_Witness ==
    /\ N = 2
    /\ \A i \in Indices : proxy_list[i + 1] \in SupportedTypes
    /\ client = "built"
    /\ modSession = None
    /\ request = NoRequest
    /\ \E t \in threads : pc[t] = "ep_done" /\ result \in {"empty_dict", "none"}

\* C23 -- Order of steps in a private endpoint call: the mapping given to
\* Utils.generate_signature already has the key 'timestamp' and has no key
\* 'signature'; the params sent are that mapping followed by one item, the
\* key 'signature' with the signature of the mapping under the client's
\* secret, so 'signature' is the last key sent and appears once.
C23_SignThenSend ==
    request # NoRequest =>
        LET sent == request.params
            n == Len(sent)
        IN  /\ HasKey(request.signed, "timestamp")
            /\ ~HasKey(request.signed, "signature")
            /\ n = Len(request.signed) + 1
            /\ SubSeq(sent, 1, n - 1) = request.signed
            /\ sent[n][1] = "signature"
            /\ sent[n][2] = <<Hmac(ApiSecret, UrlEncode(request.signed))>>
            /\ \A i \in 1..(n - 1) : sent[i][1] # "signature"

\* create_futures_order has posted a LIMIT order with stop loss and take
\* profit: 'type' was overwritten in place and 'signature' comes after the
\* eight keys signed.
C23_Witness ==
    /\ \E t \in threads : pc[t] = "http"
    /\ request.module = "futures"
    /\ KeysOf(request.params) =
         <<"symbol", "side", "type", "quantity", "timestamp", "price",
           "timeInForce", "stopPrice", "signature">>
    /\ request.params[3][2] = <<"TAKE_PROFIT_LIMIT">>
    /\ request.params[8][2] = <<"110.0">>

\* C24 -- Concurrent sweeps (as claimed): whenever a get_working_session
\* call of one of two threads sharing the ProxyManager has returned and
\* some candidate was live from the start of that call to its return, the
\* call returned a session, not None.
C24_ConcurrentSweepFindsLive ==
    \A t \in threads :
        (GwsDone(t) /\ steady[t] # {} /\ LiveSet # {}) => ret[t] # None

=============================================================================
